---------------------------- MODULE Spec2Model ----------------------------
(***************************************************************************)
(* A model of the finace_stock repository: the ticker normalisation, the   *)
(* secret resolution and channel dispatch of main.py, the preview command  *)
(* line of finance_morning.py, the add_user.py tool and the web dashboard  *)
(* with its users.yaml export.                                             *)
(*                                                                         *)
(* Python strings are modelled as sequences of one-character strings, so   *)
(* that strip(), lower(), startswith(), split() and the regular expression *)
(* \d{6} are computed and not assumed.                                     *)
(***************************************************************************)
EXTENDS Integers, Sequences, FiniteSets, TLC

VARIABLES
    code_like,      \* normalisation: the raw input
    norm_by,        \* normalisation: which implementation ran ("none" before)
    norm_result,    \* normalisation: its return value
    norm_again,     \* normalisation: the return value fed back once more
    norm_calls      \* normalisation: how many calls were made (0..2)

normVars == <<code_like, norm_by, norm_result, norm_again, norm_calls>>

VARIABLES
    env_file,       \* the .env file: [exists |-> BOOLEAN, text |-> characters]
    os_environ,     \* os.environ: a map from names to values
    users_yaml      \* users.yaml: [exists |-> BOOLEAN, users |-> list of entries]

fsVars == <<env_file, os_environ, users_yaml>>

VARIABLES
    envmap,         \* main.py: the map load_env returned
    sec_secrets,    \* get_secret: the user's secrets map, or PyNone
    sec_key,        \* get_secret: the key
    sec_default,    \* get_secret: the default
    sec_result,     \* get_secret: the return value
    sec_pc          \* "start", "loaded" (load_env ran), "done" (get_secret ran)

secretVars == <<envmap, sec_secrets, sec_key, sec_default, sec_result, sec_pc>>

VARIABLES
    run_prog,       \* which command line runs: "main" or "preview"
    args_user,      \* --user: PyNone or PyStr(id)
    run_pc,         \* "start", "loop", "single", "done", "exit2", "crashed"
    run_users,      \* the users the loop goes through
    run_i,          \* the loop's position in run_users
    reports,        \* the ids generate_report was called for, in order
    pushes,         \* the push_* calls made, in order
    results,        \* main.py: the list of response codes
    summary,        \* main.py: the (ok, total) printed at the end
    printed,        \* finance_morning.py: the ids whose report was printed
    saved           \* finance_morning.py: the ids whose report was saved

runVars ==
    <<run_prog, args_user, run_pc, run_users, run_i, reports, pushes, results,
      summary, printed, saved>>

VARIABLES
    db_users,       \* web: the User table, rows in primary-key order
    db_watch,       \* web: the Watch table
    db_rss,         \* web: the Rss table
    SESSION,        \* web: the uids that hold a session cookie
    req,            \* web: per worker thread, where its request is and what it read
    started,        \* web: how many requests were made
    exported        \* web: how many times users.yaml was written

webVars == <<db_users, db_watch, db_rss, SESSION, req, started, exported>>

VARIABLES
    env_pairs,      \* append_env_if_absent: the (key, placeholder) pairs
    env_calls,      \* append_env_if_absent: how many calls were made
    env_prev,       \* append_env_if_absent: .env before the latest call
    env_ret,        \* append_env_if_absent: what the latest call returned
    env_written     \* append_env_if_absent: whether the latest call wrote .env

envVars == <<env_pairs, env_calls, env_prev, env_ret, env_written>>

VARIABLES
    add_runs,       \* add_user.py: how many runs were made
    add_args,       \* add_user.py: the arguments of the latest run
    add_prev        \* add_user.py: the users list before the latest run

addVars == <<add_runs, add_args, add_prev>>

VARIABLES
    snap_pc,        \* fetch_index_snapshot: "idle", "primary", "secondary", "returned"
    snap_api,       \* what ak.stock_zh_index_spot() will do, until it is called
    snap_ak,        \* the outcome of _fetch_index_snapshot_ak, once called
    snap_sina,      \* the outcome of _fetch_index_snapshot_sina, once called
    snap_out        \* the list fetch_index_snapshot returned

snapVars == <<snap_pc, snap_api, snap_ak, snap_sina, snap_out>>

notSnap == <<normVars, fsVars, secretVars, runVars, webVars, envVars, addVars>>

vars ==
    <<normVars, fsVars, secretVars, runVars, webVars, envVars, addVars, snapVars>>

\* what the actions of one part leave alone
notNorm == <<fsVars, secretVars, runVars, webVars, envVars, addVars, snapVars>>

notSecret == <<normVars, fsVars, runVars, webVars, envVars, addVars, snapVars>>

notRun ==
    <<normVars, sec_secrets, sec_key, sec_default, sec_result, sec_pc, webVars,
      envVars, addVars, snapVars>>

notWeb == <<normVars, secretVars, runVars, envVars, addVars, snapVars>>

notEnv == <<normVars, secretVars, runVars, webVars, addVars, snapVars>>

notAdd == <<normVars, secretVars, runVars, webVars, envVars, snapVars>>

(***************************************************************************)
(* Python str helpers                                                      *)
(***************************************************************************)
Digits == {"0", "1", "2", "3", "4", "5", "6", "7", "8", "9"}

IsSpace(c) == c \in {" ", "\t", "\n", "\r"}

UpperLetters == <<"A","B","C","D","E","F","G","H","I","J","K","L","M",
                  "N","O","P","Q","R","S","T","U","V","W","X","Y","Z">>

LowerLetters == <<"a","b","c","d","e","f","g","h","i","j","k","l","m",
                  "n","o","p","q","r","s","t","u","v","w","x","y","z">>

\* str.lower() on one character
LowerChar(c) ==
    IF \E i \in 1..Len(UpperLetters) : UpperLetters[i] = c
    THEN LowerLetters[CHOOSE i \in 1..Len(UpperLetters) : UpperLetters[i] = c]
    ELSE c

\* str.upper() on one character
UpperChar(c) ==
    IF \E i \in 1..Len(LowerLetters) : LowerLetters[i] = c
    THEN UpperLetters[CHOOSE i \in 1..Len(LowerLetters) : LowerLetters[i] = c]
    ELSE c

Lower(s) == [i \in 1..Len(s) |-> LowerChar(s[i])]

Upper(s) == [i \in 1..Len(s) |-> UpperChar(s[i])]

RECURSIVE LStrip(_)
LStrip(s) == IF s # <<>> /\ IsSpace(Head(s)) THEN LStrip(Tail(s)) ELSE s

RECURSIVE RStrip(_)
RStrip(s) ==
    IF s # <<>> /\ IsSpace(s[Len(s)]) THEN RStrip(SubSeq(s, 1, Len(s) - 1)) ELSE s

Strip(s) == LStrip(RStrip(s))

StartsWith(s, p) == Len(s) >= Len(p) /\ SubSeq(s, 1, Len(p)) = p

Contains(s, c) == \E i \in 1..Len(s) : s[i] = c

\* index of the first occurrence of c in s (s contains c)
FirstIndex(s, c) == CHOOSE i \in 1..Len(s) : s[i] = c /\ \A j \in 1..(i - 1) : s[j] # c

\* re.search(r"(\d{6})", s): the start of the leftmost run of six digits, 0 for None
SearchSixDigits(s) ==
    LET hits == {i \in 1..(Len(s) - 5) : \A j \in i..(i + 5) : s[j] \in Digits}
    IN  IF hits = {} THEN 0 ELSE CHOOSE i \in hits : \A k \in hits : i <= k

SH == <<"s", "h">>

SZ == <<"s", "z">>

\* x.startswith(("600","601","603","605","688","689","900"))
ShanghaiHeads ==
    { <<"6","0","0">>, <<"6","0","1">>, <<"6","0","3">>, <<"6","0","5">>,
      <<"6","8","8">>, <<"6","8","9">>, <<"9","0","0">> }

StartsWithAny(x, heads) == \E h \in heads : StartsWith(x, h)

(***************************************************************************)
(* Ticker normalisation: the three copies of the function                  *)
(***************************************************************************)
\* a plausible slip: the number range decides even when a prefix is present
normalize_ignoring_prefix(c) ==
    IF c = <<>> THEN <<>>
    ELSE LET s == Lower(Strip(c))
             m == SearchSixDigits(s)
         IN  IF m = 0 THEN <<>>
             ELSE LET x == SubSeq(s, m, m + 5)
                  IN  IF StartsWithAny(x, ShanghaiHeads) THEN SH \o x ELSE SZ \o x

\* a plausible slip: 689 left out of the Shanghai number ranges
normalize_without_689(c) ==
    IF c = <<>> THEN <<>>
    ELSE LET s == Lower(Strip(c))
             m == SearchSixDigits(s)
         IN  IF m = 0 THEN <<>>
             ELSE LET x == SubSeq(s, m, m + 5)
                  IN  IF StartsWith(s, SH) THEN SH \o x
                      ELSE IF StartsWith(s, SZ) THEN SZ \o x
                      ELSE IF StartsWithAny(x, ShanghaiHeads \ {<<"6","8","9">>})
                           THEN SH \o x
                      ELSE SZ \o x

\* add_user.py
normalize_to_prefixed(c) ==
    IF c = <<>> THEN <<>>
    ELSE LET s == Lower(Strip(c))
             m == SearchSixDigits(s)
         IN  IF m = 0 THEN <<>>
             ELSE LET x == SubSeq(s, m, m + 5)
                  IN  IF StartsWith(s, SH) THEN SH \o x
                      ELSE IF StartsWith(s, SZ) THEN SZ \o x
                      ELSE IF StartsWithAny(x, ShanghaiHeads) THEN SH \o x
                      ELSE SZ \o x

\* finance_morning.py
fm_normalize_to_prefixed(c) ==
    IF c = <<>> THEN <<>>
    ELSE LET s == Lower(Strip(c))
             m == SearchSixDigits(s)
         IN  IF m = 0 THEN <<>>
             ELSE LET x == SubSeq(s, m, m + 5)
                  IN  IF StartsWith(s, SH) THEN SH \o x
                      ELSE IF StartsWith(s, SZ) THEN SZ \o x
                      ELSE IF StartsWithAny(x, ShanghaiHeads) THEN SH \o x
                      ELSE SZ \o x

\* web/app.py
norm_code(c) ==
    IF c = <<>> THEN <<>>
    ELSE LET s == Lower(Strip(c))
             m == SearchSixDigits(s)
         IN  IF m = 0 THEN <<>>
             ELSE LET x == SubSeq(s, m, m + 5)
                  IN  IF StartsWith(s, SH) THEN SH \o x
                      ELSE IF StartsWith(s, SZ) THEN SZ \o x
                      ELSE IF StartsWithAny(x, ShanghaiHeads) THEN SH \o x
                      ELSE SZ \o x

NormImpls == {"add_user", "finance_morning", "web"}

NormApply(impl, c) ==
    CASE impl = "add_user"        -> normalize_to_prefixed(c)
      [] impl = "finance_morning" -> fm_normalize_to_prefixed(c)
      [] impl = "web"             -> norm_code(c)

(***************************************************************************)
(* The inputs of the normalisation: lead \o prefix \o head \o tail \o trail *)
(***************************************************************************)
\* how many of the non-Shanghai heads below are drawn
MaxOtherHeads == 6

OtherHeads ==
    << <<"0","0","0">>, <<"3","0","0">>, <<"0","0","2">>, <<"6","0","4">>,
       <<"0","6","0">>, <<"6","8","0">>, <<"9","0","1">>, <<"3","9","9">>,
       <<"8","3","0">> >>

NormHeads ==
    ShanghaiHeads \cup
    {OtherHeads[i] : i \in 1..(IF MaxOtherHeads < Len(OtherHeads)
                               THEN MaxOtherHeads ELSE Len(OtherHeads))}

NormLeads == { <<>>, <<" ">> }

NormPrefixes ==
    { <<>>, <<"s","h">>, <<"S","Z">>, <<"S","h">>, <<"s","z">>, <<"x">>, <<"h","s">> }

NormTails == { <<"5","1","9">>, <<"0","0","0">>, <<"8","5">>, <<"8","5","8","1">> }

NormTrails == { <<>>, <<" ">>, <<".","S","H">>, <<"\n">> }

NormInputs ==
    { l \o p \o h \o t \o r :
        l \in NormLeads, p \in NormPrefixes, h \in NormHeads,
        t \in NormTails, r \in NormTrails }
    \cup { <<>>, <<" ">>, <<"s","h">>, <<"a","b","c">>, <<"S","Z"," ">> }

NormIdle ==
    /\ code_like = <<>>
    /\ norm_by = "none"
    /\ norm_result = <<>>
    /\ norm_again = <<>>
    /\ norm_calls = 0

InitNorm ==
    /\ code_like \in NormInputs
    /\ norm_by = "none"
    /\ norm_result = <<>>
    /\ norm_again = <<>>
    /\ norm_calls = 0

\* one call of the function on the raw input
Normalize(impl) ==
    /\ norm_calls = 0
    /\ norm_by' = impl
    /\ norm_result' = NormApply(impl, code_like)
    /\ norm_calls' = 1
    /\ UNCHANGED <<code_like, norm_again>>
    /\ UNCHANGED notNorm

\* the same function applied to its own result
NormalizeAgain ==
    /\ norm_calls = 1
    /\ norm_result # <<>>
    /\ norm_again' = NormApply(norm_by, norm_result)
    /\ norm_calls' = 2
    /\ UNCHANGED <<code_like, norm_by, norm_result>>
    /\ UNCHANGED notNorm

NextNorm ==
    \/ \E impl \in NormImpls : Normalize(impl)
    \/ NormalizeAgain

(***************************************************************************)
(* C1, C2: ticker normalisation                                            *)
(***************************************************************************)
AllDigits(t) == \A i \in 1..Len(t) : t[i] \in Digits

HasSixDigitRun(t) ==
    \E i \in 1..(Len(t) - 5) : AllDigits(SubSeq(t, i, i + 5))

C1_ShanghaiRanges ==
    { <<"6","0","0">>, <<"6","0","1">>, <<"6","0","3">>, <<"6","0","5">>,
      <<"6","8","8">>, <<"6","8","9">>, <<"9","0","0">> }

\* C1: a raw code that is, trimmed and lower-cased, exactly six digits comes
\* back as "sh" + digits when the digits start with 600, 601, 603, 605, 688,
\* 689 or 900 and as "sz" + digits otherwise; an empty input and an input
\* with no run of six digits come back as the empty string.
C1_RawCode ==
    norm_calls >= 1 =>
        LET t == Strip(Lower(code_like))
        IN  /\ (Len(t) = 6 /\ AllDigits(t)) =>
                   norm_result =
                       (IF SubSeq(t, 1, 3) \in C1_ShanghaiRanges
                        THEN <<"s","h">> ELSE <<"s","z">>) \o t
            /\ (code_like = <<>> \/ ~HasSixDigitRun(code_like)) =>
                   norm_result = <<>>

\* a raw 689xxx code was normalised by add_user.py to its sh form
C1_Witness ==
    /\ norm_calls >= 1
    /\ norm_by = "add_user"
    /\ Len(Strip(code_like)) = 6
    /\ SubSeq(Strip(code_like), 1, 3) = <<"6","8","9">>
    /\ norm_result = <<"s","h">> \o Strip(code_like)

\* C2: an input that, trimmed and case-folded, starts with sh or sz and
\* holds six digits comes back as that prefix in lower case followed by the
\* first run of six digits, whatever the number range; and the function
\* maps each of its non-empty results to itself.
C2_Prefixed ==
    /\ norm_calls >= 1 =>
          LET t == Lower(Strip(code_like))
          IN  ((StartsWith(t, <<"s","h">>) \/ StartsWith(t, <<"s","z">>))
               /\ HasSixDigitRun(t)) =>
                 \E i \in 1..(Len(t) - 5) :
                    /\ AllDigits(SubSeq(t, i, i + 5))
                    /\ \A j \in 1..(i - 1) : ~AllDigits(SubSeq(t, j, j + 5))
                    /\ norm_result = SubSeq(t, 1, 2) \o SubSeq(t, i, i + 5)
    /\ norm_calls = 2 => norm_again = norm_result

\* an upper-case SZ prefix in front of a Shanghai-range code was kept, and the
\* result went through the function a second time
C2_Witness ==
    /\ norm_calls = 2
    /\ StartsWith(Strip(code_like), <<"S","Z">>)
    /\ StartsWith(norm_result, <<"s","z","6","0","0">>)
    /\ norm_again = norm_result

(***************************************************************************)
(* Files, maps and Python values                                           *)
(***************************************************************************)
NoFile == [exists |-> FALSE, text |-> <<>>]

NoUsersFile == [exists |-> FALSE, users |-> <<>>]

UsersFileOf(us) == [exists |-> TRUE, users |-> us]

FileOf(t) == [exists |-> TRUE, text |-> t]

\* str.splitlines() for texts whose only line break is "\n"
RECURSIVE SplitLines(_)
SplitLines(t) ==
    IF t = <<>> THEN <<>>
    ELSE IF Contains(t, "\n")
         THEN LET i == FirstIndex(t, "\n")
              IN  <<SubSeq(t, 1, i - 1)>> \o SplitLines(SubSeq(t, i + 1, Len(t)))
         ELSE <<t>>

\* "\n".join(lines)
RECURSIVE JoinLines(_)
JoinLines(lines) ==
    IF lines = <<>> THEN <<>>
    ELSE IF Len(lines) = 1 THEN lines[1]
    ELSE lines[1] \o <<"\n">> \o JoinLines(Tail(lines))

EmptyMap == [k \in {} |-> <<>>]

\* d[k] = v
Put(d, k, v) == [x \in (DOMAIN d) \cup {k} |-> IF x = k THEN v ELSE d[x]]

\* d.update(e)
Update(d, e) ==
    [x \in (DOMAIN d) \cup (DOMAIN e) |-> IF x \in DOMAIN e THEN e[x] ELSE d[x]]

\* Python values that are not all strings: a tag and the characters of the value
PyStr(s) == [py |-> "str", v |-> s]

PyInt(digits) == [py |-> "int", v |-> digits]

PyNone == [py |-> "none", v |-> <<>>]

\* bool(val)
Truthy(val) ==
    CASE val.py = "str"  -> val.v # <<>>
      [] val.py = "int"  -> val.v # <<"0">>
      [] val.py = "none" -> FALSE

(***************************************************************************)
(* main.py: load_env and get_secret                                        *)
(***************************************************************************)
\* the loop of load_env over the lines of .env (main.py lines 27-32)
RECURSIVE main_env_lines(_, _)
main_env_lines(lines, env) ==
    IF lines = <<>> THEN env
    ELSE LET s == Strip(Head(lines))
         IN  IF s = <<>> \/ StartsWith(s, <<"#">>) \/ ~Contains(s, "=")
             THEN main_env_lines(Tail(lines), env)
             ELSE LET i == FirstIndex(s, "=")
                      k == Strip(SubSeq(s, 1, i - 1))
                      v == Strip(SubSeq(s, i + 1, Len(s)))
                  IN  main_env_lines(Tail(lines), Put(env, k, v))

\* a plausible slip: the .env entries are applied after os.environ
main_load_env_dotenv_wins(file, environ) ==
    IF file.exists THEN main_env_lines(SplitLines(file.text), environ) ELSE environ

main_load_env(file, environ) ==
    LET env == IF file.exists
               THEN main_env_lines(SplitLines(file.text), EmptyMap)
               ELSE EmptyMap
    IN  Update(env, environ)

ENV_COLON == <<"e", "n", "v", ":">>

get_secret(secrets, env, key, default) ==
    LET d   == IF secrets = PyNone THEN EmptyMap ELSE secrets
        val == IF key \in DOMAIN d THEN d[key] ELSE PyStr(<<>>)
    IN  IF val.py = "str" /\ StartsWith(val.v, ENV_COLON)
        THEN LET i    == FirstIndex(val.v, ":")
                 name == Strip(SubSeq(val.v, i + 1, Len(val.v)))
             IN  IF name \in DOMAIN env THEN PyStr(env[name]) ELSE PyStr(default)
        ELSE IF Truthy(val) THEN val ELSE PyStr(default)

(***************************************************************************)
(* The inputs of the secret resolution                                     *)
(***************************************************************************)
\* the longest .env file drawn, in lines
MaxEnvLines == 2

EnvLinePool ==
    { <<"A","=","1">>, <<"A","=","2">>, <<" ","B"," ","="," ","3"," ">>,
      <<"#","A","=","9">>, <<"A">>, <<"=","5">>, <<>> }

RECURSIVE SeqsUpTo(_, _)
SeqsUpTo(S, n) ==
    IF n = 0 THEN { <<>> }
    ELSE LET shorter == SeqsUpTo(S, n - 1)
         IN  shorter \cup { Append(q, x) : q \in shorter, x \in S }

EnvFiles ==
    {NoFile} \cup
    { FileOf(JoinLines(ls) \o <<"\n">>) : ls \in SeqsUpTo(EnvLinePool, MaxEnvLines) }

OsEnvirons ==
    { EmptyMap,
      Put(EmptyMap, <<"A">>, <<"7">>),
      Put(EmptyMap, <<"B">>, <<>>),
      Put(Put(EmptyMap, <<"A">>, <<"7">>), <<"C">>, <<"8">>) }

SecretValues ==
    { PyStr(<<>>), PyStr(<<"e","n","v",":","A">>), PyStr(<<"e","n","v",":"," ","B"," ">>),
      PyStr(<<"e","n","v",":","C">>), PyStr(<<"e","n","v",":">>),
      PyStr(<<"E","N","V",":","A">>), PyStr(<<"k","e","y">>),
      PyNone, PyInt(<<"0">>), PyInt(<<"7">>) }

SecretMaps ==
    {PyNone, EmptyMap} \cup { Put(EmptyMap, "SCT_SENDKEY", v) : v \in SecretValues }

FsIdle ==
    /\ env_file = NoFile
    /\ os_environ = EmptyMap
    /\ users_yaml = NoUsersFile

SecretIdle ==
    /\ envmap = EmptyMap
    /\ sec_secrets = PyNone
    /\ sec_key = "SCT_SENDKEY"
    /\ sec_default = <<>>
    /\ sec_result = PyNone
    /\ sec_pc = "start"

InitSecret ==
    /\ env_file \in EnvFiles
    /\ os_environ \in OsEnvirons
    /\ users_yaml = NoUsersFile
    /\ envmap = EmptyMap
    /\ sec_secrets \in SecretMaps
    /\ sec_key \in {"SCT_SENDKEY", "WEBHOOK"}
    /\ sec_default \in { <<>>, <<"d">> }
    /\ sec_result = PyNone
    /\ sec_pc = "start"

\* envmap = load_env(ENV_PATH)
LoadEnv ==
    /\ sec_pc = "start"
    /\ envmap' = main_load_env(env_file, os_environ)
    /\ sec_pc' = "loaded"
    /\ UNCHANGED <<sec_secrets, sec_key, sec_default, sec_result>>
    /\ UNCHANGED notSecret

\* get_secret(secrets, envmap, key, default)
GetSecret ==
    /\ sec_pc = "loaded"
    /\ sec_result' = get_secret(sec_secrets, envmap, sec_key, sec_default)
    /\ sec_pc' = "done"
    /\ UNCHANGED <<envmap, sec_secrets, sec_key, sec_default>>
    /\ UNCHANGED notSecret

NextSecret ==
    \/ LoadEnv
    \/ GetSecret

(***************************************************************************)
(* C3: secret resolution                                                   *)
(***************************************************************************)
\* the lines of .env that assign a value: not blank, not a comment, with "="
C3_Assigns(line, name) ==
    LET s == Strip(line)
    IN  /\ s # <<>>
        /\ s[1] # "#"
        /\ \E i \in 1..Len(s) :
              /\ s[i] = "="
              /\ \A j \in 1..(i - 1) : s[j] # "="
              /\ Strip(SubSeq(s, 1, i - 1)) = name

C3_AssignedValue(line) ==
    LET s == Strip(line)
        i == CHOOSE n \in 1..Len(s) : s[n] = "=" /\ \A j \in 1..(n - 1) : s[j] # "="
    IN  Strip(SubSeq(s, i + 1, Len(s)))

\* what the claim says the variable resolves to: the operating system's value
\* first, then the last assignment in .env, then the default
C3_Resolve(name, default) ==
    LET lines == IF env_file.exists THEN SplitLines(env_file.text) ELSE <<>>
        at    == {i \in 1..Len(lines) : C3_Assigns(lines[i], name)}
    IN  IF name \in DOMAIN os_environ THEN os_environ[name]
        ELSE IF at # {}
             THEN C3_AssignedValue(lines[CHOOSE i \in at : \A k \in at : k <= i])
        ELSE default

C3_Stored ==
    IF sec_secrets # PyNone /\ sec_key \in DOMAIN sec_secrets
    THEN sec_secrets[sec_key] ELSE PyStr(<<>>)

\* C3: get_secret returns (a) for a stored string "env:VAR" the value of VAR
\* in the map of load_env, where an operating-system variable wins over the
\* .env entry of the same name, and the default when VAR is in neither; (b)
\* any other non-empty stored value unchanged; (c) the default when the key
\* is missing or its value is empty.
C3_GetSecret ==
    sec_pc = "done" =>
        LET val == C3_Stored
        IN  IF val.py = "str" /\ Len(val.v) >= 4 /\ SubSeq(val.v, 1, 4) = <<"e","n","v",":">>
            THEN sec_result =
                   PyStr(C3_Resolve(Strip(SubSeq(val.v, 5, Len(val.v))), sec_default))
            ELSE IF Truthy(val) THEN sec_result = val
            ELSE sec_result = PyStr(sec_default)

\* an "env:A" reference was resolved to the operating system's value although
\* .env assigns A as well
C3_Witness ==
    /\ sec_pc = "done"
    /\ C3_Stored = PyStr(<<"e","n","v",":","A">>)
    /\ <<"A">> \in DOMAIN os_environ
    /\ env_file.exists
    /\ \E i \in 1..Len(SplitLines(env_file.text)) :
          C3_Assigns(SplitLines(env_file.text)[i], <<"A">>)
    /\ sec_result = PyStr(<<"7">>)

(***************************************************************************)
(* users.yaml entries                                                      *)
(***************************************************************************)
\* u.get(key, default)
Get(u, key, default) == IF key \in DOMAIN u THEN u[key] ELSE default

SERVERCHAN == <<"s","e","r","v","e","r","c","h","a","n">>

TELEGRAM == <<"t","e","l","e","g","r","a","m">>

WECOM == <<"w","e","c","o","m">>

SCT_SENDKEY_VAR == <<"S","C","T","_","S","E","N","D","K","E","Y">>

\* the u of the single-user fallback (main.py line 122)
SingleUser ==
    [id |-> <<"s","i","n","g","l","e">>, name |-> <<"s","i","n","g","l","e">>,
     channel |-> SERVERCHAN,
     secrets |-> Put(EmptyMap, "SCT_SENDKEY", PyStr(ENV_COLON \o SCT_SENDKEY_VAR))]

\* the u of the preview's fallback (finance_morning.py line 296)
PreviewSingleUser ==
    [id |-> <<"s","i","n","g","l","e">>, name |-> <<"s","i","n","g","l","e">>]

(***************************************************************************)
(* main.py: the push functions and the dispatch on the channel             *)
(***************************************************************************)
\* the codes push_serverchan can return; -1 stands for requests.post raising
push_serverchan(sendkey) ==
    IF ~Truthy(sendkey) THEN {0} ELSE {200, 500, -1}

push_telegram(bot_token, chat_id) ==
    IF ~Truthy(bot_token) \/ ~Truthy(chat_id) THEN {0} ELSE {200, 500, -1}

push_wecom(webhook) ==
    IF ~Truthy(webhook) THEN {0} ELSE {200, 500, -1}

NoPush == [via |-> "none", args |-> <<>>, codes |-> {}]

\* ch = (u.get("channel") or "serverchan").lower()
ChannelOf(u) ==
    LET c == Get(u, "channel", <<>>)
    IN  Lower(IF c = <<>> THEN SERVERCHAN ELSE c)

\* a plausible slip: an unknown channel falls back to serverchan
dispatch_default_serverchan(u, env) ==
    LET ch      == ChannelOf(u)
        secrets == Get(u, "secrets", EmptyMap)
    IN  IF ch = TELEGRAM
        THEN LET token  == get_secret(secrets, env, "BOT_TOKEN", <<>>)
                 chatid == get_secret(secrets, env, "CHAT_ID", <<>>)
             IN  [via |-> "telegram", args |-> <<token, chatid>>,
                  codes |-> push_telegram(token, chatid)]
        ELSE IF ch = WECOM
        THEN LET webhook == get_secret(secrets, env, "WEBHOOK", <<>>)
             IN  [via |-> "wecom", args |-> <<webhook>>, codes |-> push_wecom(webhook)]
        ELSE LET sendkey == get_secret(secrets, env, "SCT_SENDKEY", <<>>)
             IN  [via |-> "serverchan", args |-> <<sendkey>>,
                  codes |-> push_serverchan(sendkey)]

\* the if/elif chain of main(): which push function is called with which
\* resolved secrets, or none for an unknown channel
dispatch(u, env) ==
    LET ch      == ChannelOf(u)
        secrets == Get(u, "secrets", EmptyMap)
    IN  IF ch = SERVERCHAN
        THEN LET sendkey == get_secret(secrets, env, "SCT_SENDKEY", <<>>)
             IN  [via |-> "serverchan", args |-> <<sendkey>>,
                  codes |-> push_serverchan(sendkey)]
        ELSE IF ch = TELEGRAM
        THEN LET token  == get_secret(secrets, env, "BOT_TOKEN", <<>>)
                 chatid == get_secret(secrets, env, "CHAT_ID", <<>>)
             IN  [via |-> "telegram", args |-> <<token, chatid>>,
                  codes |-> push_telegram(token, chatid)]
        ELSE IF ch = WECOM
        THEN LET webhook == get_secret(secrets, env, "WEBHOOK", <<>>)
             IN  [via |-> "wecom", args |-> <<webhook>>, codes |-> push_wecom(webhook)]
        ELSE NoPush

\* users = [u for u in users if str(u.get("id","")) == args.user]
RECURSIVE FilterById(_, _)
FilterById(users, id) ==
    IF users = <<>> THEN <<>>
    ELSE (IF Get(Head(users), "id", <<>>) = id THEN <<Head(users)>> ELSE <<>>)
         \o FilterById(Tail(users), id)

\* sum(1 for c in results if int(c) == 200)
RECURSIVE CountOk(_)
CountOk(codes) ==
    IF codes = <<>> THEN 0
    ELSE (IF Head(codes) = 200 THEN 1 ELSE 0) + CountOk(Tail(codes))

(***************************************************************************)
(* finance_morning.py: what the preview loop does with one user            *)
(***************************************************************************)
\* a plausible slip: the preview loop copied from main.py with its push
preview_user_sending(u, env) ==
    [print |-> Get(u, "id", <<"u","s","e","r">>),
     save  |-> Get(u, "id", <<"u","s","e","r">>),
     push  |-> dispatch(u, env)]

\* print(md); fn = _save(out_dir, uid, md): nothing is sent
preview_user(u, env) ==
    [print |-> Get(u, "id", <<"u","s","e","r">>),
     save  |-> Get(u, "id", <<"u","s","e","r">>),
     push  |-> NoPush]

(***************************************************************************)
(* The inputs of a run                                                     *)
(***************************************************************************)
\* the longest users list drawn
MaxUsers == 2

EVA == <<"e","v","a">>

TOM == <<"t","o","m">>

ZED == <<"z","e","d">>

\* eva's secrets name every channel's keys, with a different value each
EvaSecrets ==
    [SCT_SENDKEY |-> PyStr(<<"e","n","v",":","A">>),
     BOT_TOKEN   |-> PyStr(<<"t","o","k">>),
     CHAT_ID     |-> PyInt(<<"4","2">>),
     WEBHOOK     |-> PyStr(<<"e","n","v",":","W">>)]

\* tom's secrets hold a chat id and nothing else
TomSecrets == [CHAT_ID |-> PyStr(<<"9">>)]

RunChannels ==
    { SERVERCHAN, <<"T","e","l","e","g","r","a","m">>, WECOM,
      <<"e","m","a","i","l">>, <<>> }

RunEntries ==
    { [id |-> EVA, name |-> EVA, channel |-> c, secrets |-> EvaSecrets] : c \in RunChannels }
    \cup { [id |-> TOM, channel |-> c, secrets |-> TomSecrets] : c \in RunChannels }
    \cup { [id |-> TOM, name |-> TOM] }

RunEnvFiles ==
    { NoFile,
      FileOf(<<"A","=","1","\n","W","=","h","\n">> \o SCT_SENDKEY_VAR \o <<"=","k","\n">>) }

RunIdle ==
    /\ run_prog = "main"
    /\ args_user = PyNone
    /\ run_pc = "start"
    /\ run_users = <<>>
    /\ run_i = 1
    /\ reports = <<>>
    /\ pushes = <<>>
    /\ results = <<>>
    /\ summary = <<0, 0>>
    /\ printed = <<>>
    /\ saved = {}

InitRun ==
    /\ env_file \in RunEnvFiles
    /\ os_environ = EmptyMap
    /\ users_yaml \in {NoUsersFile} \cup {UsersFileOf(us) : us \in SeqsUpTo(RunEntries, MaxUsers)}
    /\ run_prog \in {"main", "preview"}
    /\ args_user \in {PyNone, PyStr(EVA), PyStr(ZED)}
    /\ run_pc = "start"
    /\ run_users = <<>>
    /\ run_i = 1
    /\ reports = <<>>
    /\ pushes = <<>>
    /\ results = <<>>
    /\ summary = <<0, 0>>
    /\ printed = <<>>
    /\ saved = {}

runFrame == <<fsVars, run_prog, args_user>>

\* main.py lines 76-87: read the files, pick the users, exit 2 for an unknown id
MainStart ==
    /\ run_prog = "main" /\ run_pc = "start"
    /\ envmap' = main_load_env(env_file, os_environ)
    /\ IF users_yaml.users # <<>>
       THEN IF Truthy(args_user)
            THEN LET us == FilterById(users_yaml.users, args_user.v)
                 IN  IF us = <<>>
                     THEN run_pc' = "exit2" /\ run_users' = <<>>
                     ELSE run_pc' = "loop" /\ run_users' = us
            ELSE run_pc' = "loop" /\ run_users' = users_yaml.users
       ELSE run_pc' = "single" /\ run_users' = <<>>
    /\ UNCHANGED <<run_i, reports, pushes, results, summary, printed, saved>>
    /\ UNCHANGED runFrame /\ UNCHANGED notRun

\* generate_report raised: the run ends with a traceback
ReportRaises ==
    /\ run_pc \in {"loop", "single"}
    /\ run_pc = "loop" => run_i <= Len(run_users)
    /\ run_pc' = "crashed"
    /\ UNCHANGED <<envmap, run_users, run_i, reports, pushes, results, summary,
                   printed, saved>>
    /\ UNCHANGED runFrame /\ UNCHANGED notRun

\* main.py lines 90-116: one iteration of the loop over the users
MainUser ==
    /\ run_prog = "main" /\ run_pc = "loop" /\ run_i <= Len(run_users)
    /\ LET u   == run_users[run_i]
           uid == Get(u, "id", <<"u","s","e","r">>)
           d   == dispatch(u, envmap)
       IN  /\ reports' = Append(reports, uid)
           /\ IF d.via = "none"
              THEN /\ run_i' = run_i + 1
                   /\ UNCHANGED <<pushes, results, run_pc>>
              ELSE \E code \in d.codes :
                   /\ pushes' = Append(pushes,
                          [idx |-> run_i, uid |-> uid, via |-> d.via,
                           args |-> d.args, code |-> code])
                   /\ IF code = -1
                      THEN run_pc' = "crashed" /\ UNCHANGED <<results, run_i>>
                      ELSE /\ results' = Append(results, code)
                           /\ run_i' = run_i + 1
                           /\ UNCHANGED run_pc
    /\ UNCHANGED <<envmap, run_users, summary, printed, saved>>
    /\ UNCHANGED runFrame /\ UNCHANGED notRun

\* main.py lines 118-119: the summary after the loop
MainDone ==
    /\ run_prog = "main" /\ run_pc = "loop" /\ run_i > Len(run_users)
    /\ summary' = <<CountOk(results), Len(results)>>
    /\ run_pc' = "done"
    /\ UNCHANGED <<envmap, run_users, run_i, reports, pushes, results, printed, saved>>
    /\ UNCHANGED runFrame /\ UNCHANGED notRun

\* main.py lines 121-127: no users list, the single-user fallback
MainSingle ==
    /\ run_prog = "main" /\ run_pc = "single"
    /\ LET u       == SingleUser
           sendkey == get_secret(u.secrets, envmap, "SCT_SENDKEY", <<>>)
       IN  /\ reports' = Append(reports, u.id)
           /\ \E code \in push_serverchan(sendkey) :
                /\ pushes' = Append(pushes,
                       [idx |-> 0, uid |-> u.id, via |-> "serverchan",
                        args |-> <<sendkey>>, code |-> code])
                /\ run_pc' = IF code = -1 THEN "crashed" ELSE "done"
    /\ UNCHANGED <<envmap, run_users, run_i, results, summary, printed, saved>>
    /\ UNCHANGED runFrame /\ UNCHANGED notRun

\* finance_morning.py lines 276-286
PreviewStart ==
    /\ run_prog = "preview" /\ run_pc = "start"
    /\ IF users_yaml.users # <<>>
       THEN IF Truthy(args_user)
            THEN LET us == FilterById(users_yaml.users, args_user.v)
                 IN  IF us = <<>>
                     THEN run_pc' = "exit2" /\ run_users' = <<>>
                     ELSE run_pc' = "loop" /\ run_users' = us
            ELSE run_pc' = "loop" /\ run_users' = users_yaml.users
       ELSE run_pc' = "single" /\ run_users' = <<>>
    /\ UNCHANGED <<envmap, run_i, reports, pushes, results, summary, printed, saved>>
    /\ UNCHANGED runFrame /\ UNCHANGED notRun

\* the effects of previewing u: a report, a print, a file, and the pushes
\* the loop body makes (none)
PreviewEffects(u) ==
    LET e == preview_user(u, envmap)
    IN  /\ reports' = Append(reports, Get(u, "id", <<"u","s","e","r">>))
        /\ printed' = Append(printed, e.print)
        /\ saved' = saved \cup {e.save}
        /\ pushes' = IF e.push.via = "none" THEN pushes
                     ELSE Append(pushes,
                            [idx |-> run_i, uid |-> e.print, via |-> e.push.via,
                             args |-> e.push.args, code |-> 0])

\* finance_morning.py lines 287-293: one iteration of the preview loop
PreviewUser ==
    /\ run_prog = "preview" /\ run_pc = "loop" /\ run_i <= Len(run_users)
    /\ PreviewEffects(run_users[run_i])
    /\ run_i' = run_i + 1
    /\ run_pc' = IF run_i = Len(run_users) THEN "done" ELSE "loop"
    /\ UNCHANGED <<envmap, run_users, results, summary>>
    /\ UNCHANGED runFrame /\ UNCHANGED notRun

\* finance_morning.py lines 295-301: no users list
PreviewSingle ==
    /\ run_prog = "preview" /\ run_pc = "single"
    /\ PreviewEffects(PreviewSingleUser)
    /\ run_pc' = "done"
    /\ UNCHANGED <<envmap, run_users, run_i, results, summary>>
    /\ UNCHANGED runFrame /\ UNCHANGED notRun

NextRun ==
    \/ MainStart
    \/ ReportRaises
    \/ MainUser
    \/ MainDone
    \/ MainSingle
    \/ PreviewStart
    \/ PreviewUser
    \/ PreviewSingle

(***************************************************************************)
(* C4, C7, C8: the runs of main.py and of finance_morning.py               *)
(***************************************************************************)
C4_Known == { <<"s","e","r","v","e","r","c","h","a","n">>,
              <<"t","e","l","e","g","r","a","m">>, <<"w","e","c","o","m">> }

\* the entry's channel, lower-cased, serverchan when missing or empty
C4_Channel(u) ==
    IF "channel" \in DOMAIN u /\ u.channel # <<>>
    THEN Lower(u.channel) ELSE <<"s","e","r","v","e","r","c","h","a","n">>

C4_Secret(u, key) ==
    get_secret(IF "secrets" \in DOMAIN u THEN u.secrets ELSE EmptyMap, envmap, key, <<>>)

\* the one call the claim allows for an entry of a known channel
C4_Expected(u) ==
    LET ch == C4_Channel(u)
    IN  CASE ch = <<"s","e","r","v","e","r","c","h","a","n">> ->
               [via |-> "serverchan", args |-> <<C4_Secret(u, "SCT_SENDKEY")>>]
          [] ch = <<"t","e","l","e","g","r","a","m">> ->
               [via |-> "telegram",
                args |-> <<C4_Secret(u, "BOT_TOKEN"), C4_Secret(u, "CHAT_ID")>>]
          [] ch = <<"w","e","c","o","m">> ->
               [via |-> "wecom", args |-> <<C4_Secret(u, "WEBHOOK")>>]

\* C4: in a run of main.py every users.yaml entry gets at most one push, made
\* through the channel its "channel" field names without regard to case
\* (serverchan when missing or empty) and with that channel's secrets only;
\* an entry of any other channel gets no push and is not counted in the
\* total the run reports.
C4_Dispatch ==
    run_prog = "main" =>
        /\ \A k \in 1..Len(run_users) :
              LET u    == run_users[k]
                  mine == {j \in 1..Len(pushes) : pushes[j].idx = k}
              IN  /\ Cardinality(mine) <= 1
                  /\ C4_Channel(u) \notin C4_Known => mine = {}
                  /\ \A j \in mine :
                        /\ pushes[j].via = C4_Expected(u).via
                        /\ pushes[j].args = C4_Expected(u).args
        /\ Len(results) =
              Cardinality({j \in 1..Len(pushes) : pushes[j].idx >= 1 /\ pushes[j].code # -1})
        /\ (run_pc = "done" /\ run_users # <<>>) =>
              summary[2] = Cardinality({k \in 1..Len(run_users) :
                                           C4_Channel(run_users[k]) \in C4_Known})

\* a finished run over two entries: the one whose channel is written
\* "Telegram" was pushed to through telegram, the one whose channel is
\* "email" was not pushed to, and the total is 1
C4_Witness ==
    /\ run_prog = "main" /\ run_pc = "done"
    /\ Len(run_users) = 2
    /\ Len(pushes) = 1 /\ pushes[1].via = "telegram" /\ pushes[1].code = 200
    /\ run_users[pushes[1].idx].channel = <<"T","e","l","e","g","r","a","m">>
    /\ \E k \in 1..2 : Get(run_users[k], "channel", <<>>) = <<"e","m","a","i","l">>
    /\ summary = <<1, 1>>

\* C7: a run of the finance_morning.py command line never sends: whatever
\* --user and users.yaml are, no push is made; each report generated is
\* printed and saved under the output directory, and nothing else is done.
C7_PreviewNeverSends ==
    run_prog = "preview" =>
        /\ pushes = <<>>
        /\ results = <<>>
        /\ printed = reports
        /\ saved = {printed[i] : i \in 1..Len(printed)}

\* a finished preview of two users, one of them on telegram
C7_Witness ==
    /\ run_prog = "preview" /\ run_pc = "done"
    /\ Len(printed) = 2 /\ saved # {}
    /\ \E k \in 1..Len(run_users) : ChannelOf(run_users[k]) = TELEGRAM
    /\ pushes = <<>>

\* C8: main.py --user X pushes only for users.yaml entries whose id is X,
\* whatever users.yaml holds (a missing file and an empty list included), and
\* when no entry has id X the run ends with status 2 without a report or a
\* push.
C8_OnlyUser ==
    (run_prog = "main" /\ args_user # PyNone /\ args_user.v # <<>>) =>
        /\ \A j \in 1..Len(pushes) :
              /\ pushes[j].uid = args_user.v
              /\ \E k \in 1..Len(users_yaml.users) : users_yaml.users[k].id = args_user.v
        /\ ((\A k \in 1..Len(users_yaml.users) : users_yaml.users[k].id # args_user.v)
            /\ run_pc \in {"done", "exit2"})
           => (run_pc = "exit2" /\ reports = <<>> /\ pushes = <<>>)

(***************************************************************************)
(* web/app.py: the dashboard.  A request handler runs on a worker thread;  *)
(* its database transaction, the reads of export_users_yaml and the write  *)
(* of users.yaml are separate steps that other requests can interleave.    *)
(***************************************************************************)
\* how many requests are handled at the same time
MaxThreads == 2

\* how many requests are made in all
MaxRequests == 4

Threads == 1..MaxThreads

HTTP_X == <<"h","t","t","p",":","/","/","x">>

HTTPS_Y == <<"h","t","t","p","s",":","/","/","y">>

UTC == <<"U","T","C">>

ASIA_SHANGHAI == <<"A","s","i","a","/","S","h","a","n","g","h","a","i">>

UidChars ==
    {LowerLetters[i] : i \in 1..Len(LowerLetters)}
    \cup {UpperLetters[i] : i \in 1..Len(UpperLetters)}
    \cup Digits \cup {"_", "-"}

\* re.fullmatch(r"[a-zA-Z0-9_\-]{2,32}", uid)
UidOk(uid) ==
    /\ Len(uid) >= 2 /\ Len(uid) <= 32
    /\ \A i \in 1..Len(uid) : uid[i] \in UidChars

\* s.strip() or None, with <<>> standing for None
StripOrNone(s) == Strip(s)

\* the next primary key of a table
NextId(rows) ==
    IF rows = <<>> THEN 1
    ELSE 1 + (CHOOSE m \in {rows[i].id : i \in 1..Len(rows)} :
                 \A i \in 1..Len(rows) : rows[i].id <= m)

\* select(...).where(... == v)
RECURSIVE RowsOfUser(_, _)
RowsOfUser(rows, user_id) ==
    IF rows = <<>> THEN <<>>
    ELSE (IF Head(rows).user_id = user_id THEN <<Head(rows)>> ELSE <<>>)
         \o RowsOfUser(Tail(rows), user_id)

RECURSIVE WithoutId(_, _)
WithoutId(rows, id) ==
    IF rows = <<>> THEN <<>>
    ELSE (IF Head(rows).id = id THEN <<>> ELSE <<Head(rows)>>)
         \o WithoutId(Tail(rows), id)

\* the secrets of one exported entry (web/app.py lines 84-90)
ExportSecrets(u) ==
    LET none == EmptyMap
        sc   == IF u.channel = SERVERCHAN /\ u.sct_sendkey # <<>>
                THEN Put(none, "SCT_SENDKEY", PyStr(u.sct_sendkey)) ELSE none
        tb   == IF u.channel = TELEGRAM /\ u.tg_bot_token # <<>>
                THEN Put(sc, "BOT_TOKEN", PyStr(u.tg_bot_token)) ELSE sc
        tc   == IF u.channel = TELEGRAM /\ u.tg_chat_id # <<>>
                THEN Put(tb, "CHAT_ID", PyStr(u.tg_chat_id)) ELSE tb
    IN  IF u.channel = WECOM /\ u.wecom_webhook # <<>>
        THEN Put(tc, "WEBHOOK", PyStr(u.wecom_webhook)) ELSE tc

\* the data export_users_yaml builds from the tables (web/app.py lines 69-91)
ExportData(users, watch, rss) ==
    [i \in 1..Len(users) |->
        LET u == users[i]
            w == RowsOfUser(watch, u.id)
            r == RowsOfUser(rss, u.id)
        IN  [id        |-> u.uid,
             name      |-> u.name,
             timezone  |-> u.timezone,
             channel   |-> u.channel,
             secrets   |-> ExportSecrets(u),
             watchlist |-> [j \in 1..Len(w) |-> w[j].code],
             rss_feeds |-> [j \in 1..Len(r) |-> r[j].url]]]

\* the row a uid logs in as; users are never deleted
RowOf(users, uid) == users[CHOOSE i \in 1..Len(users) : users[i].uid = uid]

WebIdle ==
    /\ db_users = <<>>
    /\ db_watch = <<>>
    /\ db_rss = <<>>
    /\ SESSION = {}
    /\ req = [t \in Threads |-> [pc |-> "idle", snap |-> <<>>]]
    /\ started = 0
    /\ exported = 0

InitWeb ==
    /\ WebIdle
    /\ env_file = NoFile
    /\ os_environ = EmptyMap
    /\ users_yaml = NoUsersFile

webFrame == <<env_file, os_environ>>

\* the handler returned without touching the database
Returned(t) ==
    /\ started' = started + 1
    /\ UNCHANGED <<db_users, db_watch, db_rss, SESSION, req, exported, users_yaml>>

\* the handler committed and goes on to export_users_yaml()
Committed(t) ==
    /\ started' = started + 1
    /\ req' = [req EXCEPT ![t].pc = "committed"]
    /\ UNCHANGED <<exported, users_yaml>>

CanStart(t) == req[t].pc = "idle" /\ started < MaxRequests

\* POST /register (web/app.py lines 117-136)
register_post(t, form_uid, form_name) ==
    /\ CanStart(t)
    /\ LET uid == Strip(form_uid)
       IN  IF ~UidOk(uid) \/ (\E i \in 1..Len(db_users) : db_users[i].uid = uid)
           THEN Returned(t)
           ELSE /\ db_users' = Append(db_users,
                      [id |-> NextId(db_users), uid |-> uid,
                       name |-> IF Strip(form_name) # <<>> THEN Strip(form_name) ELSE uid,
                       timezone |-> ASIA_SHANGHAI, channel |-> SERVERCHAN,
                       sct_sendkey |-> <<>>, tg_bot_token |-> <<>>,
                       tg_chat_id |-> <<>>, wecom_webhook |-> <<>>])
                /\ SESSION' = SESSION \cup {uid}
                /\ Committed(t)
                /\ UNCHANGED <<db_watch, db_rss>>
    /\ UNCHANGED webFrame /\ UNCHANGED notWeb

\* POST /profile (web/app.py lines 169-191), me being the logged-in user
update_profile(t, me, form) ==
    /\ CanStart(t)
    /\ me \in SESSION
    /\ LET id == RowOf(db_users, me).id
       IN  db_users' = [i \in 1..Len(db_users) |->
               IF db_users[i].id = id
               THEN [db_users[i] EXCEPT
                       !.timezone = IF Strip(form.timezone) # <<>>
                                    THEN Strip(form.timezone) ELSE @,
                       !.channel = form.channel,
                       !.sct_sendkey = StripOrNone(form.sct_sendkey),
                       !.tg_bot_token = StripOrNone(form.tg_bot_token),
                       !.tg_chat_id = StripOrNone(form.tg_chat_id),
                       !.wecom_webhook = StripOrNone(form.wecom_webhook)]
               ELSE db_users[i]]
    /\ Committed(t)
    /\ UNCHANGED <<db_watch, db_rss, SESSION>>
    /\ UNCHANGED webFrame /\ UNCHANGED notWeb

\* POST /watch/add (web/app.py lines 193-201)
add_watch(t, me, form_code) ==
    /\ CanStart(t)
    /\ me \in SESSION
    /\ LET code == norm_code(form_code)
       IN  IF code = <<>>
           THEN Returned(t)
           ELSE /\ db_watch' = Append(db_watch,
                      [id |-> NextId(db_watch), user_id |-> RowOf(db_users, me).id,
                       code |-> code])
                /\ Committed(t)
                /\ UNCHANGED <<db_users, db_rss, SESSION>>
    /\ UNCHANGED webFrame /\ UNCHANGED notWeb

\* POST /watch/del/{wid} (web/app.py lines 203-211)
del_watch(t, me, wid) ==
    /\ CanStart(t)
    /\ me \in SESSION
    /\ db_watch' =
          IF \E i \in 1..Len(db_watch) :
                db_watch[i].id = wid /\ db_watch[i].user_id = RowOf(db_users, me).id
          THEN WithoutId(db_watch, wid) ELSE db_watch
    /\ Committed(t)
    /\ UNCHANGED <<db_users, db_rss, SESSION>>
    /\ UNCHANGED webFrame /\ UNCHANGED notWeb

\* POST /rss/add (web/app.py lines 213-222)
add_rss(t, me, form_url) ==
    /\ CanStart(t)
    /\ me \in SESSION
    /\ LET url == Strip(form_url)
       IN  IF ~(StartsWith(url, <<"h","t","t","p",":","/","/">>)
                \/ StartsWith(url, <<"h","t","t","p","s",":","/","/">>))
           THEN Returned(t)
           ELSE /\ db_rss' = Append(db_rss,
                      [id |-> NextId(db_rss), user_id |-> RowOf(db_users, me).id,
                       url |-> url])
                /\ Committed(t)
                /\ UNCHANGED <<db_users, db_watch, SESSION>>
    /\ UNCHANGED webFrame /\ UNCHANGED notWeb

\* POST /rss/del/{rid} (web/app.py lines 224-232)
del_rss(t, me, rid) ==
    /\ CanStart(t)
    /\ me \in SESSION
    /\ db_rss' =
          IF \E i \in 1..Len(db_rss) :
                db_rss[i].id = rid /\ db_rss[i].user_id = RowOf(db_users, me).id
          THEN WithoutId(db_rss, rid) ELSE db_rss
    /\ Committed(t)
    /\ UNCHANGED <<db_users, db_watch, SESSION>>
    /\ UNCHANGED webFrame /\ UNCHANGED notWeb

\* export_users_yaml, the session's reads (web/app.py lines 70-91)
ExportRead(t) ==
    /\ req[t].pc = "committed"
    /\ req' = [req EXCEPT ![t] = [pc |-> "read",
                                  snap |-> ExportData(db_users, db_watch, db_rss)]]
    /\ UNCHANGED <<db_users, db_watch, db_rss, SESSION, started, exported, users_yaml>>
    /\ UNCHANGED webFrame /\ UNCHANGED notWeb

\* export_users_yaml, USERS_YAML.write_text (web/app.py lines 92-95), and the
\* handler's return
ExportWrite(t) ==
    /\ req[t].pc = "read"
    /\ users_yaml' = UsersFileOf(req[t].snap)
    /\ req' = [req EXCEPT ![t] = [pc |-> "idle", snap |-> <<>>]]
    /\ exported' = exported + 1
    /\ UNCHANGED <<db_users, db_watch, db_rss, SESSION, started>>
    /\ UNCHANGED webFrame /\ UNCHANGED notWeb

(***************************************************************************)
(* The inputs of the dashboard                                             *)
(***************************************************************************)
AA == <<"a","a">>

BB == <<"b","b">>

FormUids == { AA, <<" ","b","b">>, <<"a">> }

FormNames == { <<>>, <<"A","n","n">> }

NoSecretsForm ==
    [timezone |-> <<>>, channel |-> SERVERCHAN, sct_sendkey |-> <<>>,
     tg_bot_token |-> <<>>, tg_chat_id |-> <<>>, wecom_webhook |-> <<>>]

ProfileForms ==
    { [NoSecretsForm EXCEPT !.sct_sendkey = <<"k"," ">>, !.timezone = UTC],
      [NoSecretsForm EXCEPT !.channel = TELEGRAM, !.tg_bot_token = <<"t">>,
                            !.tg_chat_id = <<"4">>],
      [NoSecretsForm EXCEPT !.channel = <<"e","m","a","i","l">>] }

FormCodes == { <<"6","0","0","5","1","9">>, <<"b","a","d">> }

FormUrls == { HTTP_X, <<"f","t","p",":","/","/","z">> }

NextWeb ==
    \/ \E t \in Threads, u \in FormUids, n \in FormNames : register_post(t, u, n)
    \/ \E t \in Threads, me \in {AA, BB}, f \in ProfileForms : update_profile(t, me, f)
    \/ \E t \in Threads, me \in {AA, BB}, c \in FormCodes : add_watch(t, me, c)
    \/ \E t \in Threads, me \in {AA, BB}, wid \in 1..MaxRequests : del_watch(t, me, wid)
    \/ \E t \in Threads, me \in {AA, BB}, u \in FormUrls : add_rss(t, me, u)
    \/ \E t \in Threads, me \in {AA, BB}, rid \in 1..MaxRequests : del_rss(t, me, rid)
    \/ \E t \in Threads : ExportRead(t)
    \/ \E t \in Threads : ExportWrite(t)

(***************************************************************************)
(* C5, C6: the dashboard's export and the channels                         *)
(***************************************************************************)
C5_Codes(user_id) ==
    LET at == {i \in 1..Len(db_watch) : db_watch[i].user_id = user_id}
    IN  {db_watch[i].code : i \in at}

C5_Urls(user_id) ==
    LET at == {i \in 1..Len(db_rss) : db_rss[i].user_id = user_id}
    IN  {db_rss[i].url : i \in at}

\* C5: once every request in flight has completed, users.yaml holds exactly
\* one entry per User row, with the row's id, name, timezone and channel and
\* the watchlist codes and RSS feeds the database holds for it.
C5_ExportReflectsStore ==
    ((\A t \in Threads : req[t].pc = "idle") /\ exported >= 1) =>
        /\ Len(users_yaml.users) = Len(db_users)
        /\ \A i \in 1..Len(db_users) :
              LET e == users_yaml.users[i]
                  u == db_users[i]
              IN  /\ e.id = u.uid /\ e.name = u.name
                  /\ e.timezone = u.timezone /\ e.channel = u.channel
                  /\ {e.watchlist[j] : j \in 1..Len(e.watchlist)} = C5_Codes(u.id)
                  /\ Len(e.watchlist) = Cardinality({k \in 1..Len(db_watch) :
                                                        db_watch[k].user_id = u.id})
                  /\ {e.rss_feeds[j] : j \in 1..Len(e.rss_feeds)} = C5_Urls(u.id)

C6_Channels == { <<"s","e","r","v","e","r","c","h","a","n">>,
                 <<"t","e","l","e","g","r","a","m">>, <<"w","e","c","o","m">> }

\* C6: in every state of the dashboard each User row's channel is one of
\* serverchan, telegram and wecom, and so is the channel of every entry
\* written to users.yaml.
C6_ChannelIsSupported ==
    /\ \A i \in 1..Len(db_users) : db_users[i].channel \in C6_Channels
    /\ \A i \in 1..Len(users_yaml.users) : users_yaml.users[i].channel \in C6_Channels

(***************************************************************************)
(* add_user.py: load_env and append_env_if_absent                          *)
(***************************************************************************)
\* the loop of load_env over the lines of .env (add_user.py lines 72-77)
RECURSIVE add_user_env_lines(_, _)
add_user_env_lines(lines, env) ==
    IF lines = <<>> THEN env
    ELSE LET line == Strip(Head(lines))
         IN  IF line = <<>> \/ StartsWith(line, <<"#">>) \/ ~Contains(line, "=")
             THEN add_user_env_lines(Tail(lines), env)
             ELSE LET i == FirstIndex(line, "=")
                      k == Strip(SubSeq(line, 1, i - 1))
                      v == Strip(SubSeq(line, i + 1, Len(line)))
                  IN  add_user_env_lines(Tail(lines), Put(env, k, v))

load_env(file) ==
    IF file.exists THEN add_user_env_lines(SplitLines(file.text), EmptyMap) ELSE EmptyMap

FOR_NEW_USER ==
    <<" ","f","o","r"," ","n","e","w"," ","u","s","e","r"," ","(","f","i","l","l"," ",
      "t","h","e"," ","r","e","a","l"," ","v","a","l","u","e",")",":">>

\* the loop over the pairs (add_user.py lines 92-97): the lines after it and
\* whether anything was appended
RECURSIVE AppendAbsent(_, _, _, _)
AppendAbsent(pairs, existing, lines, changed) ==
    IF pairs = <<>> THEN [lines |-> lines, changed |-> changed]
    ELSE LET k == Head(pairs)[1]
             v == Head(pairs)[2]
         IN  IF k \notin DOMAIN existing
             THEN AppendAbsent(Tail(pairs), existing,
                      lines \o << <<>>, <<"#"," ">> \o k \o FOR_NEW_USER, k \o <<"=">> \o v >>,
                      TRUE)
             ELSE AppendAbsent(Tail(pairs), existing, lines, changed)

\* append_env_if_absent(pairs) on the file: the file after it and the value
\* returned
append_env_if_absent(file, pairs) ==
    LET existing == load_env(file)
        lines    == IF file.exists THEN SplitLines(file.text) ELSE <<>>
        r        == AppendAbsent(pairs, existing, lines, FALSE)
    IN  [file    |-> IF r.changed
                     THEN FileOf(RStrip(JoinLines(r.lines)) \o <<"\n">>)
                     ELSE file,
         written |-> r.changed,
         changed |-> r.changed]

(***************************************************************************)
(* The inputs of append_env_if_absent                                      *)
(***************************************************************************)
\* the longest list of pairs drawn
MaxPairs == 2

\* how many calls are made with the same pairs
MaxEnvCalls == 2

PairKeys ==
    { <<"A">>, <<"B">>, <<"C">>, <<"A","=","x">>, <<" ","A">>, <<"#","D">> }

PairPool == { <<k, v>> : k \in PairKeys, v \in { <<>>, <<"v">> } }

EnvIdle ==
    /\ env_pairs = <<>>
    /\ env_calls = 0
    /\ env_prev = NoFile
    /\ env_ret = FALSE
    /\ env_written = FALSE

InitEnv ==
    /\ env_file \in EnvFiles
    /\ os_environ = EmptyMap
    /\ users_yaml = NoUsersFile
    /\ env_pairs \in SeqsUpTo(PairPool, MaxPairs)
    /\ env_calls = 0
    /\ env_prev = NoFile
    /\ env_ret = FALSE
    /\ env_written = FALSE

\* one call of append_env_if_absent(pairs)
AppendEnv ==
    /\ env_calls < MaxEnvCalls
    /\ LET r == append_env_if_absent(env_file, env_pairs)
       IN  /\ env_file' = r.file
           /\ env_ret' = r.changed
           /\ env_written' = r.written
    /\ env_prev' = env_file
    /\ env_calls' = env_calls + 1
    /\ UNCHANGED <<env_pairs, os_environ, users_yaml>>
    /\ UNCHANGED notEnv

NextEnv ==
    \/ AppendEnv

(***************************************************************************)
(* C9: append_env_if_absent                                                *)
(***************************************************************************)
\* C9: after append_env_if_absent(pairs), whatever .env held and whatever
\* the pairs are, every key load_env read before the call has the value it
\* had, every key of the pairs is present, the call returned true exactly
\* when some key of the pairs was absent before, the file was not written
\* when it returned false, and a second call with the same pairs returns
\* false and leaves the file as it is.
C9_NeverOverwrites ==
    env_calls >= 1 =>
        LET before == load_env(env_prev)
            after  == load_env(env_file)
        IN  /\ \A k \in DOMAIN before : k \in DOMAIN after /\ after[k] = before[k]
            /\ \A i \in 1..Len(env_pairs) : env_pairs[i][1] \in DOMAIN after
            /\ env_ret = (\E i \in 1..Len(env_pairs) : env_pairs[i][1] \notin DOMAIN before)
            /\ ~env_ret => (~env_written /\ env_file = env_prev)
            /\ env_calls >= 2 => (~env_ret /\ env_file = env_prev)

(***************************************************************************)
(* add_user.py: main                                                       *)
(***************************************************************************)
PyList(l) == [py |-> "list", v |-> l]

SCT_SENDKEY_ == <<"S","C","T","_","S","E","N","D","K","E","Y","_">>

TG_BOT_TOKEN == <<"T","G","_","B","O","T","_","T","O","K","E","N">>

TG_CHAT_ID_ == <<"T","G","_","C","H","A","T","_","I","D","_">>

WECOM_HOOK_TEAM == <<"W","E","C","O","M","_","H","O","O","K","_","T","E","A","M">>

\* args.x or default
OrElse(opt, default) == IF opt.py # "none" /\ opt.v # <<>> THEN opt.v ELSE default

\* uid = args.id.strip()
UidOf(args) == Strip(args.id)

\* channel = (args.channel or "serverchan").strip().lower()
ChannelArg(args) == Lower(Strip(OrElse(args.channel, SERVERCHAN)))

\* the watchlist loop (add_user.py lines 190-196)
RECURSIVE NormalizeAll(_)
NormalizeAll(codes) ==
    IF codes = <<>> THEN <<>>
    ELSE LET norm == normalize_to_prefixed(Head(codes))
         IN  (IF norm # <<>> THEN <<norm>> ELSE <<>>) \o NormalizeAll(Tail(codes))

\* secrets and env_pairs by channel (add_user.py lines 206-219)
SecretsOf(args) ==
    LET upper         == Upper(UidOf(args))
        sendkey_env   == OrElse(args.sendkey_env, SCT_SENDKEY_ \o upper)
        bot_token_env == OrElse(args.bot_token_env, TG_BOT_TOKEN)
        chat_id_env   == OrElse(args.chat_id_env, TG_CHAT_ID_ \o upper)
        webhook_env   == OrElse(args.webhook_env, WECOM_HOOK_TEAM)
        channel       == ChannelArg(args)
    IN  IF channel = SERVERCHAN
        THEN [secrets |-> Put(EmptyMap, "SCT_SENDKEY", PyStr(ENV_COLON \o sendkey_env)),
              pairs   |-> << <<sendkey_env, <<>> >> >>]
        ELSE IF channel = TELEGRAM
        THEN [secrets |-> Put(Put(EmptyMap, "BOT_TOKEN", PyStr(ENV_COLON \o bot_token_env)),
                              "CHAT_ID", PyStr(ENV_COLON \o chat_id_env)),
              pairs   |-> << <<bot_token_env, <<>> >>, <<chat_id_env, <<>> >> >>]
        ELSE [secrets |-> Put(EmptyMap, "WEBHOOK", PyStr(ENV_COLON \o webhook_env)),
              pairs   |-> << <<webhook_env, <<>> >> >>]

\* the entry one run assembles (add_user.py lines 177-224)
user_entry(args) ==
    LET uid  == UidOf(args)
        base == [id |-> uid, name |-> Strip(OrElse(args.name, uid)),
                 channel |-> ChannelArg(args), secrets |-> SecretsOf(args).secrets]
        e1   == IF args.timezone.py # "none" /\ args.timezone.v # <<>>
                THEN Put(base, "timezone", args.timezone.v) ELSE base
        e2   == IF args.watchlist.py # "none"
                THEN Put(e1, "watchlist", NormalizeAll(args.watchlist.v)) ELSE e1
    IN  IF args.rss_feeds.py # "none"
        THEN Put(e2, "rss_feeds", args.rss_feeds.v) ELSE e2

\* a plausible slip: the existing entry is replaced, not merged
add_or_update_replacing(users, entry) ==
    LET hits == {i \in 1..Len(users) : Get(users[i], "id", <<>>) = entry.id}
    IN  IF hits = {} THEN Append(users, entry)
        ELSE LET first == CHOOSE i \in hits : \A k \in hits : i <= k
             IN  [i \in 1..Len(users) |-> IF i = first THEN entry ELSE users[i]]

\* the for/else over the users (add_user.py lines 229-236): the first entry
\* of that id is updated by dict.update, or the entry is appended
add_or_update(users, entry) ==
    LET hits == {i \in 1..Len(users) : Get(users[i], "id", <<>>) = entry.id}
    IN  IF hits = {} THEN Append(users, entry)
        ELSE LET first == CHOOSE i \in hits : \A k \in hits : i <= k
             IN  [i \in 1..Len(users) |->
                    IF i = first THEN Update(users[i], entry) ELSE users[i]]

(***************************************************************************)
(* The inputs of add_user.py                                               *)
(***************************************************************************)
\* how many runs of add_user.py are made
MaxAddRuns == 2

AddIds == { <<" ","e","v","a"," ">>, TOM }

AddNames == { PyNone, PyStr(<<"E","v">>) }

AddChannels == { PyNone, PyStr(TELEGRAM), PyStr(WECOM) }

SIX00519 == <<"6","0","0","5","1","9">>

\* --timezone, --watchlist, --rss-feeds
AddOptions ==
    { <<PyNone, PyNone, PyNone>>,
      <<PyStr(UTC), PyList(<<SIX00519, <<"b","a","d">> >>), PyList(<<HTTP_X>>)>>,
      <<PyNone, PyList(<<>>), PyNone>>,
      <<PyStr(UTC), PyNone, PyNone>> }

AddArgs ==
    { [id |-> i, name |-> n, channel |-> c, timezone |-> o[1], watchlist |-> o[2],
       rss_feeds |-> o[3], sendkey_env |-> PyNone, bot_token_env |-> PyNone,
       chat_id_env |-> PyNone, webhook_env |-> PyNone] :
        i \in AddIds, n \in AddNames, c \in AddChannels, o \in AddOptions }

NoArgs ==
    [id |-> <<>>, name |-> PyNone, channel |-> PyNone, timezone |-> PyNone,
     watchlist |-> PyNone, rss_feeds |-> PyNone, sendkey_env |-> PyNone,
     bot_token_env |-> PyNone, chat_id_env |-> PyNone, webhook_env |-> PyNone]

\* users.yaml files with pairwise distinct ids to start from
TomEntry ==
    [id |-> TOM, name |-> TOM, channel |-> SERVERCHAN, timezone |-> ASIA_SHANGHAI,
     watchlist |-> << SZ \o <<"0","0","0","8","5","8">> >>, rss_feeds |-> <<HTTPS_Y>>,
     rss_limit |-> PyInt(<<"3">>),
     secrets |-> [SCT_SENDKEY |-> PyStr(<<"k","e","y">>), CHAT_ID |-> PyStr(<<"9">>)]]

EvaEntry ==
    [id |-> EVA, name |-> EVA, channel |-> WECOM,
     secrets |-> [WEBHOOK |-> PyStr(HTTPS_Y)]]

AddUsersFiles ==
    { NoUsersFile, UsersFileOf(<<>>), UsersFileOf(<<TomEntry>>),
      UsersFileOf(<<EvaEntry, TomEntry>>) }

AddIdle ==
    /\ add_runs = 0
    /\ add_args = NoArgs
    /\ add_prev = <<>>

InitAdd ==
    /\ env_file = NoFile
    /\ os_environ = EmptyMap
    /\ users_yaml \in AddUsersFiles
    /\ add_runs = 0
    /\ add_args = NoArgs
    /\ add_prev = <<>>

\* one run of add_user.py with the given arguments
AddUser(args) ==
    /\ add_runs < MaxAddRuns
    /\ users_yaml' = UsersFileOf(add_or_update(users_yaml.users, user_entry(args)))
    /\ env_file' = append_env_if_absent(env_file, SecretsOf(args).pairs).file
    /\ add_prev' = users_yaml.users
    /\ add_args' = args
    /\ add_runs' = add_runs + 1
    /\ UNCHANGED os_environ
    /\ UNCHANGED notAdd

NextAdd ==
    \/ \E args \in AddArgs : AddUser(args)

(***************************************************************************)
(* C10: add_user.py adds or updates one user                               *)
(***************************************************************************)
C10_Supplied ==
    {"id", "name", "channel", "secrets"}
    \cup (IF add_args.timezone # PyNone THEN {"timezone"} ELSE {})
    \cup (IF add_args.watchlist # PyNone THEN {"watchlist"} ELSE {})
    \cup (IF add_args.rss_feeds # PyNone THEN {"rss_feeds"} ELSE {})

C10_ChannelKeys(channel) ==
    CASE channel = <<"s","e","r","v","e","r","c","h","a","n">> -> {"SCT_SENDKEY"}
      [] channel = <<"t","e","l","e","g","r","a","m">> -> {"BOT_TOKEN", "CHAT_ID"}
      [] channel = <<"w","e","c","o","m">> -> {"WEBHOOK"}

\* the entry of the run's id carries what the run supplied
C10_Carries(e) ==
    /\ e.id = Strip(add_args.id)
    /\ e.name = (IF add_args.name = PyNone THEN e.id ELSE add_args.name.v)
    /\ e.channel = (IF add_args.channel = PyNone
                    THEN <<"s","e","r","v","e","r","c","h","a","n">>
                    ELSE add_args.channel.v)
    /\ DOMAIN e.secrets = C10_ChannelKeys(e.channel)
    /\ add_args.timezone # PyNone => e.timezone = add_args.timezone.v
    /\ add_args.rss_feeds # PyNone => e.rss_feeds = add_args.rss_feeds.v
    /\ add_args.watchlist # PyNone =>
          /\ Len(e.watchlist) <= Len(add_args.watchlist.v)
          /\ \A j \in 1..Len(e.watchlist) :
                Len(e.watchlist[j]) = 8 /\ SubSeq(e.watchlist[j], 1, 2) \in {SH, SZ}

\* C10: starting from pairwise distinct ids, after any runs of add_user.py
\* the ids are pairwise distinct; a run for id X appends an entry when X is
\* absent and otherwise updates X's entry in place by shallow merge: the keys
\* the run does not supply keep their values, id, name, channel and the whole
\* secrets map are replaced; the entries of other ids and the order of the
\* entries do not change.
C10_AddOrUpdate ==
    LET new == users_yaml.users
        old == add_prev
        X   == Strip(add_args.id)
    IN  /\ \A i, j \in 1..Len(new) : i # j => new[i].id # new[j].id
        /\ add_runs >= 1 =>
             IF \E i \in 1..Len(old) : old[i].id = X
             THEN /\ Len(new) = Len(old)
                  /\ \A i \in 1..Len(old) :
                        IF old[i].id # X THEN new[i] = old[i]
                        ELSE /\ C10_Carries(new[i])
                             /\ DOMAIN new[i] = (DOMAIN old[i]) \cup C10_Supplied
                             /\ \A k \in (DOMAIN old[i]) \ C10_Supplied :
                                   new[i][k] = old[i][k]
             ELSE /\ Len(new) = Len(old) + 1
                  /\ SubSeq(new, 1, Len(old)) = old
                  /\ C10_Carries(new[Len(new)])
                  /\ DOMAIN new[Len(new)] = C10_Supplied

\* tom's entry was updated in place behind eva's: the channel and the secrets
\* changed, the time zone, the watchlist and rss_limit, which the run did not
\* supply, stayed
C10_Witness ==
    /\ add_runs >= 1
    /\ Strip(add_args.id) = TOM
    /\ add_args.timezone = PyNone /\ add_args.watchlist = PyNone
    /\ Len(add_prev) = 2 /\ add_prev[2] = TomEntry
    /\ Len(users_yaml.users) = 2
    /\ users_yaml.users[1] = add_prev[1]
    /\ users_yaml.users[2].channel = TELEGRAM
    /\ DOMAIN users_yaml.users[2].secrets = {"BOT_TOKEN", "CHAT_ID"}
    /\ users_yaml.users[2].timezone = ASIA_SHANGHAI
    /\ users_yaml.users[2].watchlist = TomEntry.watchlist
    /\ users_yaml.users[2].rss_limit = TomEntry.rss_limit

(***************************************************************************)
(* Python float values, float() and str() on them                          *)
(***************************************************************************)
\* a float that is a number, kept in hundredths
PyFloat(h) == [py |-> "float", nan |-> FALSE, v |-> h]

\* math.nan
NaN == [py |-> "float", nan |-> TRUE, v |-> 0]

DigitChars == <<"0", "1", "2", "3", "4", "5", "6", "7", "8", "9">>

DigitVal(c) == (CHOOSE i \in 1..Len(DigitChars) : DigitChars[i] = c) - 1

IsDigits(s) == \A i \in 1..Len(s) : s[i] \in Digits

RECURSIVE NatOf(_)
NatOf(s) ==
    IF s = <<>> THEN 0
    ELSE NatOf(SubSeq(s, 1, Len(s) - 1)) * 10 + DigitVal(s[Len(s)])

RECURSIVE NatStr(_)
NatStr(n) ==
    IF n < 10 THEN <<DigitChars[n + 1]>>
    ELSE NatStr(n \div 10) \o <<DigitChars[(n % 10) + 1]>>

\* an unsigned decimal literal: digits, with at most one point among them
IsDecimal(t) ==
    IF Contains(t, ".")
    THEN LET i  == FirstIndex(t, ".")
             ip == SubSeq(t, 1, i - 1)
             fp == SubSeq(t, i + 1, Len(t))
         IN  IsDigits(ip) /\ IsDigits(fp) /\ Len(ip) + Len(fp) > 0
    ELSE t # <<>> /\ IsDigits(t)

\* the value of an unsigned decimal literal in hundredths (later digits dropped)
Hundredths(t) ==
    IF Contains(t, ".")
    THEN LET i  == FirstIndex(t, ".")
             ip == SubSeq(t, 1, i - 1)
             fp == SubSeq(SubSeq(t, i + 1, Len(t)) \o <<"0", "0">>, 1, 2)
         IN  NatOf(ip) * 100 + NatOf(fp)
    ELSE NatOf(t) * 100

Raised == [raised |-> TRUE, val |-> NaN]

Value(x) == [raised |-> FALSE, val |-> x]

\* float(x): the value, or raised for a ValueError / TypeError
float(x) ==
    CASE x.py = "float" -> Value(x)
      [] x.py = "str" ->
            LET s    == Strip(x.v)
                neg  == s # <<>> /\ Head(s) = "-"
                body == IF s # <<>> /\ Head(s) \in {"-", "+"} THEN Tail(s) ELSE s
            IN  IF Lower(body) = <<"n", "a", "n">> THEN Value(NaN)
                ELSE IF IsDecimal(body)
                     THEN Value(PyFloat(IF neg THEN 0 - Hundredths(body)
                                        ELSE Hundredths(body)))
                ELSE Raised
      [] OTHER -> Raised

\* str(x)
str(x) ==
    CASE x.py = "str" -> x.v
      [] x.py = "float" ->
            IF x.nan THEN <<"n", "a", "n">>
            ELSE LET a  == IF x.v < 0 THEN 0 - x.v ELSE x.v
                     fr == a % 100
                 IN  (IF x.v < 0 THEN <<"-">> ELSE <<>>)
                     \o NatStr(a \div 100) \o <<".">>
                     \o (IF fr % 10 = 0 THEN NatStr(fr \div 10)
                         ELSE <<DigitChars[(fr \div 10) + 1], DigitChars[(fr % 10) + 1]>>)
      [] OTHER -> <<"N", "o", "n", "e">>

\* s.replace(c, "")
Remove(s, c) == SelectSeq(s, LAMBDA ch : ch # c)

(***************************************************************************)
(* finance_morning.py: the index snapshot                                  *)
(*                                                                         *)
(* The Chinese names are written in pinyin: Shangzheng Zhishu, Shenzheng   *)
(* Chengzhi and Chuangyeban Zhi for the three indices, daima (code),       *)
(* zuixinjia (latest price) and zhangdiefu (change in percent) for the     *)
(* columns of the data frame.                                              *)
(***************************************************************************)
SHANGZHENG_ZHISHU == "Shangzheng Zhishu"

SHENZHENG_CHENGZHI == "Shenzheng Chengzhi"

CHUANGYEBAN_ZHI == "Chuangyeban Zhi"

DAIMA == "daima"

ZUIXINJIA == "zuixinjia"

ZHANGDIEFU == "zhangdiefu"

\* the outcome of a call: an exception, or the list returned
Raises == [raised |-> TRUE, out |-> <<>>]

Returns(out) == [raised |-> FALSE, out |-> out]

NotCalled == [called |-> FALSE, raised |-> FALSE, out |-> <<>>]

Called(r) == [called |-> TRUE, raised |-> r.raised, out |-> r.out]

Entry(name, price, chg) == [name |-> name, price |-> price, change_pct |-> chg]

\* targets, in the order of the dict
targets ==
    << [code6 |-> <<"0","0","0","0","0","1">>, name |-> SHANGZHENG_ZHISHU],
       [code6 |-> <<"3","9","9","0","0","1">>, name |-> SHENZHENG_CHENGZHI],
       [code6 |-> <<"3","9","9","0","0","6">>, name |-> CHUANGYEBAN_ZHI] >>

\* df["code6"]: .astype(str).str.extract(r"(\d{6})") of one cell, <<>> for NaN
Code6(cell) ==
    LET s == str(cell)
        m == SearchSixDigits(s)
    IN  IF m = 0 THEN <<>> ELSE SubSeq(s, m, m + 5)

\* r.get(col, default)
RowGet(r, col, default) == IF col \in DOMAIN r THEN r[col] ELSE default

\* the body of the loop for a row r that was found
ak_entry(r, name) ==
    LET price == float(RowGet(r, ZUIXINJIA, NaN))
        text  == Remove(str(RowGet(r, ZHANGDIEFU, PyStr(<<"0">>))), "%")
        chg   == float(IF text = <<>> THEN PyFloat(0) ELSE PyStr(text))
    IN  IF price.raised \/ chg.raised THEN Entry(name, NaN, NaN)
        ELSE Entry(name, price.val, chg.val)

RECURSIVE ak_rows(_, _)
ak_rows(df, k) ==
    IF k > Len(targets) THEN <<>>
    ELSE LET row == SelectSeq(df.rows, LAMBDA r : Code6(r[DAIMA]) = targets[k].code6)
         IN  (IF row = <<>> THEN <<>> ELSE <<ak_entry(row[1], targets[k].name)>>)
             \o ak_rows(df, k + 1)

\* _fetch_index_snapshot_ak, given what ak.stock_zh_index_spot() does
fetch_index_snapshot_ak(api) ==
    IF api.raises THEN Raises
    ELSE IF api.df.py = "none" THEN Returns(<<>>)
    ELSE IF api.df.rows = <<>> \/ DAIMA \notin api.df.columns THEN Returns(<<>>)
    ELSE Returns(ak_rows(api.df, 1))

\* the (name, code) items
items ==
    << [name |-> SHANGZHENG_ZHISHU,  code |-> <<"s","_","s","h","0","0","0","0","0","1">>],
       [name |-> SHENZHENG_CHENGZHI, code |-> <<"s","_","s","z","3","9","9","0","0","1">>],
       [name |-> CHUANGYEBAN_ZHI,    code |-> <<"s","_","s","z","3","9","9","0","0","6">>] >>

QUOTE == "\""

\* re.search(r'="([^"]*)"', line): where the leftmost match starts, 0 for None
SearchQuoted(line) ==
    LET hits == {i \in 1..(Len(line) - 2) :
                    /\ line[i] = "=" /\ line[i + 1] = QUOTE
                    /\ \E j \in (i + 2)..Len(line) : line[j] = QUOTE}
    IN  IF hits = {} THEN 0 ELSE CHOOSE i \in hits : \A k \in hits : i <= k

\* m.group(1) of the match that starts at i
QuotedGroup(line, i) ==
    LET rest == SubSeq(line, i + 2, Len(line))
    IN  SubSeq(rest, 1, FirstIndex(rest, QUOTE) - 1)

\* s.split(",")
RECURSIVE Split(_)
Split(s) ==
    IF Contains(s, ",")
    THEN LET i == FirstIndex(s, ",")
         IN  <<SubSeq(s, 1, i - 1)>> \o Split(SubSeq(s, i + 1, Len(s)))
    ELSE <<s>>

\* the body of the loop for one (expected, line): the entries it appends
sina_entry(expected, line) ==
    LET m == SearchQuoted(line)
    IN  IF m = 0 THEN <<>>
        ELSE LET parts == Split(QuotedGroup(line, m))
             IN  IF Len(parts) < 2 THEN <<>>              \* IndexError
                 ELSE LET price == IF parts[2] # <<>> THEN float(PyStr(parts[2]))
                                   ELSE Value(NaN)
                          cpct  == IF Len(parts) > 3 /\ parts[4] # <<>>
                                   THEN float(PyStr(Remove(parts[4], "%")))
                                   ELSE Value(NaN)
                      IN  IF price.raised \/ cpct.raised THEN <<>>   \* ValueError
                          ELSE <<Entry(expected, price.val, cpct.val)>>

\* zip(items, lines) from position k on
RECURSIVE sina_rows(_, _)
sina_rows(lines, k) ==
    IF k > Len(items) \/ k > Len(lines) THEN <<>>
    ELSE sina_entry(items[k].name, lines[k]) \o sina_rows(lines, k + 1)

\* _fetch_index_snapshot_sina, given what requests.get does
fetch_index_snapshot_sina(resp) ==
    IF resp.raises THEN Raises
    ELSE Returns(sina_rows(SplitLines(Strip(resp.text)), 1))

\* a plausible slip: the NaN test on the prices left out
primary_usable_by_length(out) == Len(out) = 3

\* len(out) == 3 and all(isinstance(price, (int, float)) and not isnan(price))
primary_usable(out) ==
    /\ Len(out) = 3
    /\ \A i \in 1..Len(out) :
          /\ out[i].price.py \in {"int", "float"}
          /\ ~out[i].price.nan

\* the list of the last except branch
placeholders ==
    << Entry(SHANGZHENG_ZHISHU, NaN, NaN),
       Entry(SHENZHENG_CHENGZHI, NaN, NaN),
       Entry(CHUANGYEBAN_ZHI, NaN, NaN) >>

(***************************************************************************)
(* The inputs of the index snapshot                                        *)
(***************************************************************************)
\* the most rows drawn for the data frame
MaxRows == 3

\* the most lines drawn for the Sina response
MaxSinaLines == 4

AllColumns == {DAIMA, ZUIXINJIA, ZHANGDIEFU}

RowCodes ==
    { <<"s","h","0","0","0","0","0","1">>, <<"s","z","3","9","9","0","0","1">>,
      <<"s","z","3","9","9","0","0","6">> }

\* (latest price, change) cells: numbers, a missing price, a dash for a price,
\* a dash for a change
RowCells ==
    { <<PyFloat(300050), PyFloat(34)>>,
      <<NaN, PyFloat(34)>>,
      <<PyStr(<<"-", "-">>), PyStr(<<"1", ".", "2", "5", "%">>)>>,
      <<PyStr(<<"3", "0", "0", "0", ".", "5">>), PyStr(<<"-", "-">>)>> }

RowOn(cols, code, cells) ==
    [c \in cols |-> CASE c = DAIMA     -> PyStr(code)
                      [] c = ZUIXINJIA -> cells[1]
                      [] OTHER         -> cells[2]]

RowPool(cols) == {RowOn(cols, code, cells) : code \in RowCodes, cells \in RowCells}

Frame(cols, rows) == [py |-> "frame", columns |-> cols, rows |-> rows]

Frames ==
    {Frame(AllColumns, rows) : rows \in SeqsUpTo(RowPool(AllColumns), MaxRows)}
    \cup UNION {{Frame(cols, rows) : rows \in SeqsUpTo(RowPool(cols), 1)} :
                   cols \in {AllColumns \ {DAIMA}, AllColumns \ {ZUIXINJIA}}}

ApiRaises == [raises |-> TRUE, df |-> PyNone]

ApiOutcomes == {ApiRaises} \cup {[raises |-> FALSE, df |-> f] : f \in Frames \cup {PyNone}}

\* the local df is gone once _fetch_index_snapshot_ak has returned
ApiCalled == [raises |-> FALSE, df |-> PyNone]

SinaLine(body) == <<"v", "=", QUOTE>> \o body \o <<QUOTE, ";">>

\* a quote, a quote without a price, an empty quote (the reply to a refused
\* request), a quote whose price is not a number, a line without a quote
SinaLinePool ==
    { SinaLine(<<"n", ",", "3", "0", ".", "5", "0", ",", "1", ",", "0", ".", "3", "4">>),
      SinaLine(<<"n", ",", ",", "1", ",", "0", ".", "3", "4">>),
      SinaLine(<<>>),
      SinaLine(<<"n", ",", "a", "b", "c">>),
      <<"v", ";">> }

SinaResponses ==
    {[raises |-> TRUE, text |-> <<>>]}
    \cup {[raises |-> FALSE, text |-> JoinLines(ls) \o <<"\n">>] :
             ls \in SeqsUpTo(SinaLinePool, MaxSinaLines)}

SnapIdle ==
    /\ snap_pc = "idle"
    /\ snap_api = ApiCalled
    /\ snap_ak = NotCalled
    /\ snap_sina = NotCalled
    /\ snap_out = <<>>

InitSnap ==
    /\ snap_pc = "primary"
    /\ snap_api \in ApiOutcomes
    /\ snap_ak = NotCalled
    /\ snap_sina = NotCalled
    /\ snap_out = <<>>

(***************************************************************************)
(* fetch_index_snapshot                                                    *)
(***************************************************************************)
\* the first try block: the AkShare fetch and the test on its result
FetchPrimary ==
    /\ snap_pc = "primary"
    /\ LET r == fetch_index_snapshot_ak(snap_api)
       IN  /\ snap_ak' = Called(r)
           /\ IF ~r.raised /\ primary_usable(r.out)
              THEN snap_out' = r.out /\ snap_pc' = "returned"
              ELSE snap_out' = snap_out /\ snap_pc' = "secondary"
    /\ snap_api' = ApiCalled
    /\ UNCHANGED snap_sina
    /\ UNCHANGED notSnap

\* the second try block: the Sina fetch, or the placeholders when it raises
FetchSecondary ==
    /\ snap_pc = "secondary"
    /\ \E resp \in SinaResponses :
          LET r == fetch_index_snapshot_sina(resp)
          IN  /\ snap_sina' = Called(r)
              /\ snap_out' = IF r.raised THEN placeholders ELSE r.out
    /\ snap_pc' = "returned"
    /\ UNCHANGED <<snap_api, snap_ak>>
    /\ UNCHANGED notSnap

NextSnap ==
    \/ FetchPrimary
    \/ FetchSecondary

(***************************************************************************)
(* Claims about the index snapshot                                         *)
(***************************************************************************)
\* the primary fetch did not raise and produced three entries whose prices
\* are all numbers, none of them NaN
C11_PrimaryGood ==
    /\ snap_ak.called /\ ~snap_ak.raised
    /\ Len(snap_ak.out) = 3
    /\ \A i \in 1..3 : snap_ak.out[i].price.py = "float" /\ ~snap_ak.out[i].price.nan

C11_Placeholders ==
    << [name |-> SHANGZHENG_ZHISHU,  price |-> NaN, change_pct |-> NaN],
       [name |-> SHENZHENG_CHENGZHI, price |-> NaN, change_pct |-> NaN],
       [name |-> CHUANGYEBAN_ZHI,    price |-> NaN, change_pct |-> NaN] >>

\* C11: fetch_index_snapshot never raises.  It returns the primary (AkShare)
\* result exactly when that fetch did not raise and produced three entries that
\* all have a numeric non-NaN price, and then the secondary fetch is not made.
\* In every other case it returns the result of the secondary (Sina) fetch as
\* is, and the three placeholder entries with NaN price and change when the
\* secondary fetch raises.
C11_FallbackChain ==
    /\ snap_pc \in {"idle", "primary", "secondary", "returned"}
    /\ snap_pc = "secondary" => snap_ak.called /\ ~C11_PrimaryGood
    /\ snap_pc = "returned" =>
          IF C11_PrimaryGood
          THEN snap_out = snap_ak.out /\ ~snap_sina.called
          ELSE /\ snap_ak.called /\ snap_sina.called
               /\ snap_out = IF snap_sina.raised THEN C11_Placeholders
                             ELSE snap_sina.out

\* the primary fetch gave three entries, one of them with a NaN price, the
\* secondary fetch raised, and the placeholders were returned
C11_Witness ==
    /\ snap_pc = "returned"
    /\ ~snap_ak.raised /\ Len(snap_ak.out) = 3
    /\ \E i \in 1..3 : snap_ak.out[i].price.nan
    /\ \E i \in 1..3 : ~snap_ak.out[i].price.nan
    /\ snap_sina.called /\ snap_sina.raised
    /\ snap_out = C11_Placeholders

(***************************************************************************)
(* Specifications                                                          *)
(***************************************************************************)
InitSpecNorm ==
    InitNorm /\ FsIdle /\ SecretIdle /\ RunIdle /\ WebIdle /\ EnvIdle
    /\ AddIdle /\ SnapIdle

SpecNorm == InitSpecNorm /\ [][NextNorm]_vars

InitSpecSecret ==
    InitSecret /\ NormIdle /\ RunIdle /\ WebIdle /\ EnvIdle
    /\ AddIdle /\ SnapIdle

SpecSecret == InitSpecSecret /\ [][NextSecret]_vars

InitSpecRun ==
    InitRun /\ NormIdle /\ SecretIdle /\ WebIdle /\ EnvIdle
    /\ AddIdle /\ SnapIdle

SpecRun == InitSpecRun /\ [][NextRun]_vars

InitSpecWeb ==
    InitWeb /\ NormIdle /\ SecretIdle /\ RunIdle /\ EnvIdle
    /\ AddIdle /\ SnapIdle

SpecWeb == InitSpecWeb /\ [][NextWeb]_vars

InitSpecEnv ==
    InitEnv /\ NormIdle /\ SecretIdle /\ RunIdle /\ WebIdle
    /\ AddIdle /\ SnapIdle

SpecEnv == InitSpecEnv /\ [][NextEnv]_vars

InitSpecAdd ==
    InitAdd /\ NormIdle /\ SecretIdle /\ RunIdle /\ WebIdle
    /\ EnvIdle /\ SnapIdle

SpecAdd == InitSpecAdd /\ [][NextAdd]_vars

InitSpecSnap ==
    InitSnap /\ NormIdle /\ FsIdle /\ SecretIdle /\ RunIdle /\ WebIdle /\ EnvIdle
    /\ AddIdle

SpecSnap == InitSpecSnap /\ [][NextSnap]_vars

=============================================================================
